---- MODULE Spec2Model ----
(***************************************************************************)
(* Conditional static-file responses of poem:                              *)
(*   poem/src/web/static_file.rs        StaticFile::create_response, etag  *)
(*   poem-openapi/src/payload/static_file.rs   StaticFile::into_response   *)
(*                                                                         *)
(* A request walks through from_request, File::open, File::metadata, the   *)
(* rest of create_response (content type, validator, the four conditional  *)
(* headers, the response), the OpenAPI wrapper's into_response and, for a   *)
(* response that carries the file, the polling of its body stream.         *)
(*                                                                         *)
(* Option<T> is a sequence: <<>> is None and <<v>> is Some(v).             *)
(***************************************************************************)
EXTENDS Integers, Sequences, FiniteSets, TLC

VARIABLES file, reqs

vars == <<file, reqs>>

\* ----------------------------------------------------------------- bounds
\* Largest whole second of a modification time (the smallest is -1, one
\* second before the epoch).
MaxSecs == 1
\* Largest sub-second part of a modification time.
MaxNanos == 1
\* Largest date (whole seconds since the epoch) a request header carries.
MaxDate == 2
\* Most chunks the response writer polls from a body before it ends.
MaxChunks == 2

Requests == {1, 2}

\* Inode numbers and lengths: one and two hex digits.
Inos == {1, 17}
Lens == {1, 17}

IsSome(o) == o # <<>>

\* ------------------------------------------------------------- file system
\* What File::metadata reads: avail is whether Metadata::modified() is Ok,
\* (secs, nanos) the modification time relative to the epoch (secs < 0 is
\* before the epoch), ino and len the inode number and the length.
Files ==
  [avail : BOOLEAN, secs : -1..MaxSecs, nanos : 0..MaxNanos, ino : Inos, len : Lens]

\* fn ino(md): the inode number on unix.
ino(md) == md.ino

\* ------------------------------------------------------------------ etag
HexDigits ==
  <<"0", "1", "2", "3", "4", "5", "6", "7", "8", "9", "a", "b", "c", "d", "e", "f">>

\* format!("{:x}", n)
RECURSIVE Hex(_)
Hex(n) == IF n < 16 THEN HexDigits[n + 1] ELSE Hex(n \div 16) \o HexDigits[(n % 16) + 1]

\* A variant of etag that writes the four numbers without separators.
etagNoSeparator(i, modified, len) ==
  IF modified.secs < 0
    THEN <<>>
    ELSE <<[weak |-> FALSE,
            tag |-> Hex(i) \o Hex(len) \o Hex(modified.secs) \o Hex(modified.nanos)]>>

\* fn etag(ino, modified, len): <<>> when duration_since(UNIX_EPOCH) is Err
\* and expect() panics, else the strong entity tag "ino:len:secs:nanos" in hex.
etag(i, modified, len) ==
  IF modified.secs < 0
    THEN <<>>
    ELSE <<[weak |-> FALSE,
            tag |-> Hex(i) \o ":" \o Hex(len) \o ":" \o Hex(modified.secs)
                      \o ":" \o Hex(modified.nanos)]>>

\* ------------------------------------------------------------- HTTP dates
\* HttpDate::from(SystemTime): whole seconds since the epoch, the sub-second
\* part dropped.
HttpDateFrom(modified) == modified.secs

DecDigits == <<"0", "1", "2", "3", "4", "5", "6", "7", "8", "9">>

Pad2(n) == DecDigits[(n \div 10) + 1] \o DecDigits[(n % 10) + 1]

\* HttpDate::to_string for a date of the epoch's first day (IMF-fixdate).
FmtHttpDate(d) ==
  "Thu, 01 Jan 1970 " \o Pad2(d \div 3600) \o ":" \o Pad2((d \div 60) % 60)
     \o ":" \o Pad2(d % 60) \o " GMT"

\* -------------------------------------------------------- request headers
NoHeaders ==
  [if_match |-> <<>>, if_unmodified_since |-> <<>>,
   if_none_match |-> <<>>, if_modified_since |-> <<>>]

\* The entity tags a client can send: a tag that matches nothing and, when
\* the file has a validator, that validator as the server sent it and as a
\* weak tag.
ClientTags(f) ==
  {[weak |-> FALSE, tag |-> "abc"]}
    \cup (IF f.avail /\ f.secs >= 0
            THEN LET t == etag(ino(f), f, f.len)[1]
                 IN {t, [weak |-> TRUE, tag |-> t.tag]}
            ELSE {})

\* Option<IfMatch> / Option<IfNoneMatch>: absent, "*", or a list of tags.
TagLists(f) ==
  {<<>>, <<[any |-> TRUE, tags |-> {}]>>}
    \cup {<<[any |-> FALSE, tags |-> {t}]>> : t \in ClientTags(f)}
    \cup (IF f.avail /\ f.secs >= 0
            THEN {<<[any |-> FALSE, tags |-> ClientTags(f)]>>}
            ELSE {})

\* Option<IfUnmodifiedSince> / Option<IfModifiedSince>.
DateOpts == {<<>>} \cup {<<d>> : d \in 0..MaxDate}

AllHeaders(f) ==
  [if_match : TagLists(f), if_unmodified_since : DateOpts,
   if_none_match : TagLists(f), if_modified_since : DateOpts]

\* A request carries no conditional header, or one of a few.
FewHeaders(f) ==
  {NoHeaders,
   [NoHeaders EXCEPT !.if_none_match = <<[any |-> TRUE, tags |-> {}]>>],
   [NoHeaders EXCEPT !.if_match = <<[any |-> FALSE, tags |-> {[weak |-> FALSE, tag |-> "abc"]}]>>],
   [NoHeaders EXCEPT !.if_modified_since = <<0>>]}

\* EntityTag::strong_eq and EntityTag::weak_eq
StrongEq(a, b) == ~a.weak /\ ~b.weak /\ a.tag = b.tag
WeakEq(a, b) == a.tag = b.tag

\* IfMatch::precondition_passes(&etag), called at line 64
IfMatch_precondition_passes(im, tag) ==
  im.any \/ \E t \in im.tags : StrongEq(t, tag)

\* IfNoneMatch::precondition_passes(&etag), called at line 76
IfNoneMatch_precondition_passes(inm, tag) ==
  ~(inm.any \/ \E t \in inm.tags : WeakEq(t, tag))

\* A variant of IfUnmodifiedSince_precondition_passes that compares the
\* modification time with its sub-second part.
IfUnmodifiedSince_passes_subsec(d, modified) ==
  d > modified.secs \/ (d = modified.secs /\ modified.nanos = 0)

\* IfUnmodifiedSince::precondition_passes(modified), called at line 70: the
\* header's date is not before the modification time as an HttpDate.
IfUnmodifiedSince_precondition_passes(d, modified) == d >= HttpDateFrom(modified)

\* A variant of IfModifiedSince_is_modified that compares the modification
\* time with its sub-second part.
IfModifiedSince_is_modified_subsec(d, modified) ==
  d < modified.secs \/ (d = modified.secs /\ modified.nanos > 0)

\* IfModifiedSince::is_modified(modified), called at line 80: the header's
\* date is before the modification time as an HttpDate.
IfModifiedSince_is_modified(d, modified) == d < HttpDateFrom(modified)

\* ------------------------------------------------------------ content type
\* mime_guess::from_path(path).first(), for the paths of the model
MimeGuess(path) ==
  CASE path = "index.html" -> <<"text/html">>
    [] path = "logo.png" -> <<"image/png">>
    [] path = "Cargo.toml" -> <<"text/x-toml">>
    [] OTHER -> <<>>

\* fn equiv_utf8_text(ct)
equiv_utf8_text(ct) ==
  IF ct = "application/javascript" THEN "application/javascript; charset=utf-8"
  ELSE IF ct = "text/html" THEN "text/html; charset=utf-8"
  ELSE IF ct = "text/css" THEN "text/css; charset=utf-8"
  ELSE IF ct = "text/plain" THEN "text/plain; charset=utf-8"
  ELSE IF ct = "text/csv" THEN "text/csv; charset=utf-8"
  ELSE IF ct = "text/tab-separated-values" THEN "text/tab-separated-values; charset=utf-8"
  ELSE ct

\* ---------------------------------------------------------------- responses
\* A header map: a function from header names to values.
EmptyHeaders == [n \in {} |-> ""]

\* Response::builder() before anything is set on it; also "no response".
NoResponse == [status |-> 0, headers |-> EmptyHeaders, body |-> "none"]

\* Result<Response, StaticFileError> of create_response; kind "None" before
\* the call ends, "Panic" when it unwinds.
NoResult == [kind |-> "None", resp |-> NoResponse, err |-> "none"]

Ok(resp) == [kind |-> "Ok", resp |-> resp, err |-> "none"]
Err(e) == [kind |-> "Err", resp |-> NoResponse, err |-> e]
Panicked == [kind |-> "Panic", resp |-> NoResponse, err |-> "none"]

\* Lines 50-58: the builder with the content type, when one is guessed.
ContentTypeHeaders(path, prefer_utf8) ==
  LET guess == MimeGuess(path)
  IN IF IsSome(guess)
       THEN ("content-type" :> (IF prefer_utf8 THEN equiv_utf8_text(guess[1]) ELSE guess[1]))
       ELSE EmptyHeaders

\* A variant of EarlyReturn that attaches the file to the response.
EarlyReturnWithFile(status, headers) ==
  [status |-> status, headers |-> headers, body |-> "file"]

\* return Ok(builder.status(status).finish()): the status on the builder's
\* headers and an empty body.
EarlyReturn(status, headers) ==
  [status |-> status, headers |-> headers, body |-> "empty"]

\* A variant of FullHeaders that leaves Cache-Control out.
FullHeadersNoCacheControl(headers, modified, tag) ==
  headers @@ ("last-modified" :> FmtHttpDate(HttpDateFrom(modified)))
          @@ ("etag" :> ("\"" \o tag.tag \o "\""))

\* Lines 85-88: Cache-Control, Last-Modified and ETag on the builder.
FullHeaders(headers, modified, tag) ==
  headers @@ ("cache-control" :> "public")
          @@ ("last-modified" :> FmtHttpDate(HttpDateFrom(modified)))
          @@ ("etag" :> ("\"" \o tag.tag \o "\""))

\* Line 91: Ok(builder.body(Body::from_async_read(File::from_std(file)))),
\* the builder's default status.
FullResponse(headers) == [status |-> 200, headers |-> headers, body |-> "file"]

\* ------------------------------------------------------ conditional headers
Seen(opt, name) == IF IsSome(opt) THEN <<name>> ELSE <<>>

\* A variant of Evaluate that tests the cache validators before the
\* preconditions.
EvaluateCacheFirst(hdr, tag, modified) ==
  LET im == hdr.if_match
      ius == hdr.if_unmodified_since
      inm == hdr.if_none_match
      ims == hdr.if_modified_since
      c1 == IF IsSome(inm) THEN <<"if-none-match">> ELSE Seen(ims, "if-modified-since")
  IN IF IsSome(inm) /\ ~IfNoneMatch_precondition_passes(inm[1], tag)
       THEN [outcome |-> "NotModified", checked |-> c1]
     ELSE IF ~IsSome(inm) /\ IsSome(ims) /\ ~IfModifiedSince_is_modified(ims[1], modified)
       THEN [outcome |-> "NotModified", checked |-> c1]
     ELSE IF IsSome(im) /\ ~IfMatch_precondition_passes(im[1], tag)
       THEN [outcome |-> "PreconditionFailed", checked |-> c1 \o <<"if-match">>]
     ELSE IF IsSome(ius) /\ ~IfUnmodifiedSince_precondition_passes(ius[1], modified)
       THEN [outcome |-> "PreconditionFailed",
             checked |-> c1 \o Seen(im, "if-match") \o <<"if-unmodified-since">>]
     ELSE [outcome |-> "Full",
           checked |-> c1 \o Seen(im, "if-match") \o Seen(ius, "if-unmodified-since")]

\* A variant of Evaluate with `if` for the `else if` of line 79: a passing
\* If-None-Match is followed by the If-Modified-Since test.
EvaluateNoElse(hdr, tag, modified) ==
  LET im == hdr.if_match
      ius == hdr.if_unmodified_since
      inm == hdr.if_none_match
      ims == hdr.if_modified_since
      c1 == Seen(im, "if-match")
      c2 == c1 \o Seen(ius, "if-unmodified-since")
      c3 == c2 \o Seen(inm, "if-none-match")
  IN IF IsSome(im) /\ ~IfMatch_precondition_passes(im[1], tag)
       THEN [outcome |-> "PreconditionFailed", checked |-> c1]
     ELSE IF IsSome(ius) /\ ~IfUnmodifiedSince_precondition_passes(ius[1], modified)
       THEN [outcome |-> "PreconditionFailed", checked |-> c2]
     ELSE IF IsSome(inm) /\ ~IfNoneMatch_precondition_passes(inm[1], tag)
       THEN [outcome |-> "NotModified", checked |-> c3]
     ELSE IF IsSome(ims)
       THEN [outcome |-> IF ~IfModifiedSince_is_modified(ims[1], modified)
                           THEN "NotModified" ELSE "Full",
             checked |-> c3 \o <<"if-modified-since">>]
     ELSE [outcome |-> "Full", checked |-> c3]

\* Lines 63-83: the outcome of the four conditional headers, and the headers
\* the code consulted on the way, in order (checked records the control
\* flow; the code keeps no such list).
Evaluate(hdr, tag, modified) ==
  LET im == hdr.if_match
      ius == hdr.if_unmodified_since
      inm == hdr.if_none_match
      ims == hdr.if_modified_since
      c1 == Seen(im, "if-match")
      c2 == c1 \o Seen(ius, "if-unmodified-since")
  IN IF IsSome(im) /\ ~IfMatch_precondition_passes(im[1], tag)
       THEN [outcome |-> "PreconditionFailed", checked |-> c1]
     ELSE IF IsSome(ius) /\ ~IfUnmodifiedSince_precondition_passes(ius[1], modified)
       THEN [outcome |-> "PreconditionFailed", checked |-> c2]
     ELSE IF IsSome(inm)
       THEN [outcome |-> IF ~IfNoneMatch_precondition_passes(inm[1], tag)
                           THEN "NotModified" ELSE "Full",
             checked |-> c2 \o <<"if-none-match">>]
     ELSE IF IsSome(ims)
       THEN [outcome |-> IF ~IfModifiedSince_is_modified(ims[1], modified)
                           THEN "NotModified" ELSE "Full",
             checked |-> c2 \o <<"if-modified-since">>]
     ELSE [outcome |-> "Full", checked |-> c2]

\* Lines 50-91 of create_response, on the metadata md read at line 49: the
\* result, the headers consulted and the validator computed.
BuildResponse(hdr, path, prefer_utf8, md) ==
  LET h0 == ContentTypeHeaders(path, prefer_utf8)
  IN IF md.avail
       THEN LET tag == etag(ino(md), md, md.len)
            IN IF ~IsSome(tag)
                 THEN [result |-> Panicked, checked |-> <<>>, etag |-> <<>>]
                 ELSE LET ev == Evaluate(hdr, tag[1], md)
                      IN [result |->
                            Ok(CASE ev.outcome = "PreconditionFailed" -> EarlyReturn(412, h0)
                                 [] ev.outcome = "NotModified" -> EarlyReturn(304, h0)
                                 [] OTHER -> FullResponse(FullHeaders(h0, md, tag[1]))),
                          checked |-> ev.checked,
                          etag |-> tag]
       ELSE [result |-> Ok(FullResponse(h0)), checked |-> <<>>, etag |-> <<>>]

\* A variant of FileAfterReturn that never closes the file.
FileLeaked(result) == "open"

\* Where the std::fs::File opened at line 48 is when create_response ends:
\* moved into the body at line 91 (still open), or a local dropped by the
\* return or by the unwinding (closed).
FileAfterReturn(result) ==
  IF result.kind = "Ok" /\ result.resp.body = "file" THEN "open" ELSE "closed"

\* ------------------------------------------------------- OpenAPI wrapper
\* Error::from(err).as_response(): the response the error makes of itself.
ErrorAsResponse(e) ==
  [status |-> 500, headers |-> EmptyHeaders, body |-> "error: " \o e]

\* A variant of into_response that answers an error with an empty default
\* response.
into_response_default(res) ==
  IF res.kind = "Ok" THEN res.resp
  ELSE [status |-> 200, headers |-> EmptyHeaders, body |-> "empty"]

\* impl IntoResponse for StaticFile (poem-openapi)
into_response(res) ==
  IF res.kind = "Ok" THEN res.resp ELSE ErrorAsResponse(res.err)

\* ------------------------------------------------------------------ state
\* One request: where it is (pc), the extractor's fields (hdr), the
\* arguments of create_response (path, prefer_utf8), the file handle of
\* line 48 (handle), the metadata of line 49 (md), the validator of line 61
\* (etag), what create_response returned (result), the response the wrapper
\* hands to the server (wire), and the bookkeeping of the model: the headers
\* consulted (checked), the calls of File::open (opens), the chunks polled
\* from the body (read).
IdleReq ==
  [pc |-> "idle", hdr |-> NoHeaders, path |-> "", prefer_utf8 |-> FALSE,
   handle |-> "none", md |-> <<>>, etag |-> <<>>, result |-> NoResult,
   wire |-> NoResponse, checked |-> <<>>, opens |-> 0, read |-> 0]

\* The files of the single-request specification, and of the concurrent one.
InitFiles == Files
ConcFiles == {f \in Files : f.avail /\ f.nanos = 0 /\ f.ino = 1 /\ f.len = 1}

\* (path, prefer_utf8) as the tests call create_response and as a server of
\* pages does, and for the concurrent requests of one path.
TestArgs == {<<"Cargo.toml", FALSE>>, <<"index.html", TRUE>>}
SamePathArgs == {<<"logo.png", TRUE>>}

Init ==
  /\ file \in InitFiles
  /\ reqs = [r \in Requests |-> IdleReq]

InitConc ==
  /\ file \in ConcFiles
  /\ reqs = [r \in Requests |-> IdleReq]

\* ---------------------------------------------------------------- actions
\* StaticFile::from_request: the four typed headers of the request.
FromRequest(r, hdrs, args) ==
  /\ reqs[r].pc = "idle"
  /\ \E h \in hdrs, a \in args :
       reqs' = [reqs EXCEPT ![r] =
                  [@ EXCEPT !.pc = "extracted", !.hdr = h,
                            !.path = a[1], !.prefer_utf8 = a[2]]]
  /\ UNCHANGED file

\* Line 48, File::open succeeds.
Open(r) ==
  /\ reqs[r].pc = "extracted"
  /\ reqs' = [reqs EXCEPT ![r] =
                [@ EXCEPT !.pc = "opened", !.handle = "open", !.opens = @ + 1]]
  /\ UNCHANGED file

\* Line 48, File::open fails: `?` returns the error.
OpenFail(r) ==
  /\ reqs[r].pc = "extracted"
  /\ reqs' = [reqs EXCEPT ![r] =
                [@ EXCEPT !.pc = "returned", !.opens = @ + 1, !.result = Err("open")]]
  /\ UNCHANGED file

\* Line 49, file.metadata() succeeds.
Stat(r) ==
  /\ reqs[r].pc = "opened"
  /\ reqs' = [reqs EXCEPT ![r] = [@ EXCEPT !.pc = "stated", !.md = <<file>>]]
  /\ UNCHANGED file

\* Line 49, file.metadata() fails: `?` returns the error and drops the file.
StatFail(r) ==
  /\ reqs[r].pc = "opened"
  /\ reqs' = [reqs EXCEPT ![r] =
                [@ EXCEPT !.pc = "returned", !.result = Err("metadata"),
                          !.handle = FileAfterReturn(Err("metadata"))]]
  /\ UNCHANGED file

\* Lines 50-91.
Respond(r) ==
  /\ reqs[r].pc = "stated"
  /\ LET q == reqs[r]
         b == BuildResponse(q.hdr, q.path, q.prefer_utf8, q.md[1])
     IN reqs' = [reqs EXCEPT ![r] =
                   [@ EXCEPT !.pc = "returned", !.result = b.result,
                             !.checked = b.checked, !.etag = b.etag,
                             !.handle = FileAfterReturn(b.result)]]
  /\ UNCHANGED file

\* StaticFile::new(res).into_response() of the OpenAPI payload; a panic never
\* gets here.
IntoResponse(r) ==
  /\ reqs[r].pc = "returned"
  /\ reqs[r].result.kind \in {"Ok", "Err"}
  /\ reqs' = [reqs EXCEPT ![r] =
                [@ EXCEPT !.pc = "sending", !.wire = into_response(reqs[r].result)]]
  /\ UNCHANGED file

\* The response writer polls a chunk of the file from the body stream.
PollChunk(r) ==
  /\ reqs[r].pc = "sending"
  /\ reqs[r].wire.body = "file"
  /\ reqs[r].read < MaxChunks
  /\ reqs' = [reqs EXCEPT ![r] = [@ EXCEPT !.read = @ + 1]]
  /\ UNCHANGED file

\* The stream reaches the end of the file and drops its reader.
PollEof(r) ==
  /\ reqs[r].pc = "sending"
  /\ reqs[r].wire.body = "file"
  /\ reqs' = [reqs EXCEPT ![r] = [@ EXCEPT !.pc = "exhausted", !.handle = "closed"]]
  /\ UNCHANGED file

\* A read fails: the stream yields the error and drops its reader.
PollError(r) ==
  /\ reqs[r].pc = "sending"
  /\ reqs[r].wire.body = "file"
  /\ reqs' = [reqs EXCEPT ![r] = [@ EXCEPT !.pc = "errored", !.handle = "closed"]]
  /\ UNCHANGED file

\* The response is dropped: written out in full when it has no file, or
\* abandoned by the caller at any point.
DropResponse(r) ==
  /\ reqs[r].pc = "sending"
  /\ reqs' = [reqs EXCEPT ![r] =
                [@ EXCEPT !.pc = "dropped",
                          !.handle = IF @ = "open" THEN "closed" ELSE @]]
  /\ UNCHANGED file

\* Another process rewrites the file.
Modify ==
  /\ \E f \in ConcFiles : f # file /\ file' = f
  /\ UNCHANGED reqs

\* What a request does once it has arrived.
Step(r) ==
  \/ Open(r)
  \/ OpenFail(r)
  \/ Stat(r)
  \/ StatFail(r)
  \/ Respond(r)
  \/ IntoResponse(r)
  \/ PollChunk(r)
  \/ PollEof(r)
  \/ PollError(r)
  \/ DropResponse(r)

\* One request, every combination of the conditional headers.
Next ==
  \/ FromRequest(1, AllHeaders(file), TestArgs)
  \/ Step(1)

Spec == Init /\ [][Next]_vars

\* Concurrent requests for the same path while the file changes.
NextConc ==
  \/ \E r \in Requests : FromRequest(r, FewHeaders(file), SamePathArgs)
  \/ \E r \in Requests : Step(r)
  \/ Modify

\* A call of create_response runs to its end, and a response is written
\* out, fails or is dropped.
SpecConc == InitConc /\ [][NextConc]_vars /\ \A r \in Requests : WF_vars(Step(r))

\* ================================================================ claims
Range(s) == {s[i] : i \in DOMAIN s}

\* create_response returned a response for a file whose modification time
\* it could read (so the validator q.etag[1] exists).
Validated(q) == q.result.kind = "Ok" /\ q.md[1].avail

\* The value of the Last-Modified header the server emits for metadata m.
LastModifiedOf(m) == FmtHttpDate(HttpDateFrom(m))

IfMatchFails(q) ==
  IsSome(q.hdr.if_match) /\ ~IfMatch_precondition_passes(q.hdr.if_match[1], q.etag[1])

IfUnmodifiedSinceFails(q) ==
  /\ IsSome(q.hdr.if_unmodified_since)
  /\ ~IfUnmodifiedSince_precondition_passes(q.hdr.if_unmodified_since[1], q.md[1])

\* C1: with a modification time available, a failing If-Match or a failing
\* If-Unmodified-Since gives 412 whatever If-None-Match and If-Modified-Since
\* hold, and If-Match is consulted before If-Unmodified-Since (and alone
\* when it fails).
C1_PreconditionsFirst ==
  \A r \in Requests :
    LET q == reqs[r]
    IN Validated(q) =>
         /\ (IfMatchFails(q) \/ IfUnmodifiedSinceFails(q)) => q.result.resp.status = 412
         /\ IfMatchFails(q) => q.checked = <<"if-match">>
         /\ (IsSome(q.hdr.if_match) /\ "if-unmodified-since" \in Range(q.checked)) =>
              (q.checked[1] = "if-match" /\ q.checked[2] = "if-unmodified-since")

\* C1 witness: If-Match fails while If-None-Match matches the validator and
\* If-Modified-Since would say "not modified": the answer is 412.
C1_Witness ==
  \E r \in Requests :
    LET q == reqs[r]
    IN /\ Validated(q)
       /\ IfMatchFails(q)
       /\ IsSome(q.hdr.if_none_match)
       /\ ~IfNoneMatch_precondition_passes(q.hdr.if_none_match[1], q.etag[1])
       /\ IsSome(q.hdr.if_modified_since)
       /\ IsSome(q.hdr.if_unmodified_since)
       /\ q.result.resp.status = 412

\* C2: with a modification time available and no failing precondition, a
\* present If-None-Match alone decides: 304 when the validator matches it,
\* the full response otherwise, whatever If-Modified-Since holds; and
\* If-Modified-Since is consulted only when If-None-Match is absent.
C2_IfNoneMatchDecides ==
  \A r \in Requests :
    LET q == reqs[r]
    IN Validated(q) =>
         /\ (~IfMatchFails(q) /\ ~IfUnmodifiedSinceFails(q) /\ IsSome(q.hdr.if_none_match)) =>
              LET inm == q.hdr.if_none_match[1]
                  matches == inm.any \/ \E t \in inm.tags : t.tag = q.etag[1].tag
              IN /\ q.result.resp.status = (IF matches THEN 304 ELSE 200)
                 /\ q.result.resp.body = (IF matches THEN "empty" ELSE "file")
                 /\ "if-modified-since" \notin Range(q.checked)
         /\ "if-modified-since" \in Range(q.checked) => ~IsSome(q.hdr.if_none_match)

\* C2 witness: a non-matching If-None-Match together with an
\* If-Modified-Since that is not before the modification time: 200.
C2_Witness ==
  \E r \in Requests :
    LET q == reqs[r]
    IN /\ Validated(q)
       /\ IsSome(q.hdr.if_none_match)
       /\ IfNoneMatch_precondition_passes(q.hdr.if_none_match[1], q.etag[1])
       /\ IsSome(q.hdr.if_modified_since)
       /\ ~IfModifiedSince_is_modified(q.hdr.if_modified_since[1], q.md[1])
       /\ q.result.resp.status = 200

\* C3: every response for a file with a readable modification time carries
\* ETag and Last-Modified, the 304 and the 412 included.
C3_ValidatorsOnEveryResponse ==
  \A r \in Requests :
    LET q == reqs[r]
    IN Validated(q) =>
         {"etag", "last-modified"} \subseteq DOMAIN q.result.resp.headers

\* Only If-Modified-Since is sent.
OnlyIfModifiedSince(h) ==
  /\ ~IsSome(h.if_match)
  /\ ~IsSome(h.if_unmodified_since)
  /\ ~IsSome(h.if_none_match)
  /\ IsSome(h.if_modified_since)

\* C4: with If-Modified-Since alone, the date the server emits as
\* Last-Modified gives 304, one second less gives 200, one second more gives
\* 304, sub-second modification times included: 304 exactly when the
\* modification time in whole seconds is not after the date.
C4_IfModifiedSinceSeconds ==
  \A r \in Requests :
    LET q == reqs[r]
    IN (Validated(q) /\ OnlyIfModifiedSince(q.hdr)) =>
         LET d == q.hdr.if_modified_since[1]
             lm == LastModifiedOf(q.md[1])
             st == q.result.resp.status
         IN /\ FmtHttpDate(d) = lm => st = 304
            /\ FmtHttpDate(d + 1) = lm => st = 200
            /\ (d >= 1 /\ FmtHttpDate(d - 1) = lm) => st = 304
            /\ st = 304 <=> q.md[1].secs <= d
            /\ st \in {200, 304}

\* C4 witness: a modification time with a sub-second part, If-Modified-Since
\* equal to the emitted Last-Modified, 304.
C4_Witness ==
  \E r \in Requests :
    LET q == reqs[r]
    IN /\ Validated(q)
       /\ OnlyIfModifiedSince(q.hdr)
       /\ q.md[1].nanos > 0
       /\ FmtHttpDate(q.hdr.if_modified_since[1]) = LastModifiedOf(q.md[1])
       /\ q.result.resp.status = 304

\* If-Match is absent or satisfied, and If-Unmodified-Since is sent.
ReachesIfUnmodifiedSince(q) ==
  Validated(q) /\ ~IfMatchFails(q) /\ IsSome(q.hdr.if_unmodified_since)

\* C5 as stated: If-Unmodified-Since gives 412 exactly when the modification
\* time, seconds and nanoseconds, is strictly after the date.
C5_Original ==
  \A r \in Requests :
    LET q == reqs[r]
    IN ReachesIfUnmodifiedSince(q) =>
         LET d == q.hdr.if_unmodified_since[1]
             m == q.md[1]
         IN q.result.resp.status = 412 <=> (m.secs > d \/ (m.secs = d /\ m.nanos > 0))

\* C5 amended: If-Unmodified-Since gives 412 exactly when the modification
\* time in whole seconds (sub-second part dropped) is strictly after the
\* date; the emitted Last-Modified date and one second later pass, one
\* second earlier gives 412.
C5_IfUnmodifiedSinceSeconds ==
  \A r \in Requests :
    LET q == reqs[r]
    IN ReachesIfUnmodifiedSince(q) =>
         LET d == q.hdr.if_unmodified_since[1]
             m == q.md[1]
             lm == LastModifiedOf(m)
             st == q.result.resp.status
         IN /\ st = 412 <=> m.secs > d
            /\ FmtHttpDate(d) = lm => st # 412
            /\ (d >= 1 /\ FmtHttpDate(d - 1) = lm) => st # 412
            /\ FmtHttpDate(d + 1) = lm => st = 412

\* C5 witness: a sub-second modification time and If-Unmodified-Since equal
\* to the emitted Last-Modified: the precondition passes.
C5_Witness ==
  \E r \in Requests :
    LET q == reqs[r]
    IN /\ ReachesIfUnmodifiedSince(q)
       /\ q.md[1].nanos > 0
       /\ FmtHttpDate(q.hdr.if_unmodified_since[1]) = LastModifiedOf(q.md[1])
       /\ q.result.resp.status = 200

\* create_response returned the full response.
Full(q) == q.result.kind = "Ok" /\ q.result.resp.body = "file"

HasHeader(resp, name) == name \in DOMAIN resp.headers

\* C6 as stated: every full response carries Cache-Control: public, also
\* without a modification time, where every header combination gives the
\* full response without Last-Modified and ETag.
C6_Original ==
  \A r \in Requests :
    LET q == reqs[r]
    IN /\ Full(q) =>
            (HasHeader(q.result.resp, "cache-control")
               /\ q.result.resp.headers["cache-control"] = "public")
       /\ (q.result.kind = "Ok" /\ ~q.md[1].avail) =>
            (Full(q) /\ ~HasHeader(q.result.resp, "last-modified")
               /\ ~HasHeader(q.result.resp, "etag"))

\* C6 amended: a full response for a file with a modification time carries
\* Cache-Control: public, Last-Modified and ETag; without a modification
\* time every header combination gives the full response, no conditional
\* header is consulted, and Cache-Control, Last-Modified and ETag are all
\* omitted.
C6_CacheControlWithValidators ==
  \A r \in Requests :
    LET q == reqs[r]
    IN /\ (Full(q) /\ q.md[1].avail) =>
            /\ HasHeader(q.result.resp, "cache-control")
            /\ q.result.resp.headers["cache-control"] = "public"
            /\ q.result.resp.headers["last-modified"] = LastModifiedOf(q.md[1])
            /\ q.result.resp.headers["etag"] = "\"" \o q.etag[1].tag \o "\""
       /\ (q.result.kind = "Ok" /\ ~q.md[1].avail) =>
            /\ Full(q)
            /\ q.result.resp.status = 200
            /\ q.checked = <<>>
            /\ DOMAIN q.result.resp.headers \subseteq {"content-type"}

\* C6 witness: no modification time, all four conditional headers sent, the
\* full response.
C6_Witness ==
  \E r \in Requests :
    LET q == reqs[r]
    IN /\ Full(q)
       /\ ~q.md[1].avail
       /\ IsSome(q.hdr.if_match)
       /\ IsSome(q.hdr.if_unmodified_since)
       /\ IsSome(q.hdr.if_none_match)
       /\ IsSome(q.hdr.if_modified_since)

\* C7: a returned response is a 200, a 304 or a 412; a 304 and a 412 have an
\* empty body and do not keep the file, and the file is attached to the 200
\* alone.
C7_NoBodyOn304And412 ==
  \A r \in Requests :
    LET q == reqs[r]
    IN q.result.kind = "Ok" =>
         LET resp == q.result.resp
         IN /\ resp.status \in {200, 304, 412}
            /\ resp.status \in {304, 412} => (resp.body = "empty" /\ q.handle = "closed")
            /\ resp.status = 200 <=> resp.body = "file"
            /\ q.pc # "returned" => q.wire = resp

\* C7 witness: a 304 on its way out.
C7_Witness ==
  \E r \in Requests :
    LET q == reqs[r]
    IN q.pc = "sending" /\ q.wire.status = 304 /\ q.wire.body = "empty"

\* C9: a failing open or stat ends the call with the error: no response, no
\* validator, no conditional header consulted, one call of open; and the
\* OpenAPI wrapper passes a response on unchanged and answers an error with
\* the error's own response.
C9_ErrorsSurface ==
  \A r \in Requests :
    LET q == reqs[r]
    IN /\ q.opens <= 1
       /\ q.result.kind = "Err" =>
            /\ q.result.resp = NoResponse
            /\ q.result.err \in {"open", "metadata"}
            /\ q.checked = <<>>
            /\ q.etag = <<>>
            /\ q.opens = 1
            /\ q.handle # "open"
       /\ (q.pc \notin {"idle", "extracted", "opened", "stated", "returned"}) =>
            /\ q.result.kind = "Ok" => q.wire = q.result.resp
            /\ q.result.kind = "Err" => q.wire = ErrorAsResponse(q.result.err)

\* C9 witness: the stat failed and the wrapper answered with the error's
\* response, while the request carried conditional headers.
C9_Witness ==
  \E r \in Requests :
    LET q == reqs[r]
    IN /\ q.result = Err("metadata")
       /\ q.pc = "sending"
       /\ IsSome(q.hdr.if_match)
       /\ IsSome(q.hdr.if_modified_since)

\* C10: a readable modification time before the epoch ends the call in a
\* panic: no response, no error value, no conditional header consulted; at
\* or after the epoch the validator exists and no other (identity, size,
\* seconds, nanoseconds) has the same one.
C10_ValidatorOrPanic ==
  \A r \in Requests :
    LET q == reqs[r]
    IN (IsSome(q.md) /\ q.pc # "stated" /\ q.md[1].avail) =>
         LET m == q.md[1]
         IN /\ m.secs < 0 =>
                 (q.result = Panicked /\ q.checked = <<>> /\ q.pc = "returned"
                    /\ q.wire = NoResponse)
            /\ m.secs >= 0 =>
                 /\ q.result.kind = "Ok"
                 /\ IsSome(q.etag)
                 /\ ~q.etag[1].weak
                 /\ \A n \in Files :
                      (n.secs >= 0 /\ etag(ino(n), n, n.len) = q.etag) =>
                        (n.ino = m.ino /\ n.len = m.len /\ n.secs = m.secs
                           /\ n.nanos = m.nanos)

\* C10 witness: a panic on a request with all four conditional headers.
C10_Witness ==
  \E r \in Requests :
    LET q == reqs[r]
    IN /\ q.result = Panicked
       /\ IsSome(q.hdr.if_match)
       /\ IsSome(q.hdr.if_unmodified_since)
       /\ IsSome(q.hdr.if_none_match)
       /\ IsSome(q.hdr.if_modified_since)

\* A request is over: the call ended without a response, or its response is
\* gone.
Finished(q) ==
  \/ q.result.kind \in {"Err", "Panic"}
  \/ q.pc \in {"exhausted", "errored", "dropped"}

\* The response of a request carries no file.
Bodiless(q) == q.result.kind = "Ok" /\ q.result.resp.body = "empty"

HandleSafe ==
  \A r \in Requests :
    LET q == reqs[r]
    IN (Finished(q) \/ Bodiless(q)) => q.handle # "open"

\* A step of one request leaves the other requests and the file alone.
Independent ==
  \A r \in Requests :
    reqs'[r] # reqs[r] => (file' = file /\ \A s \in Requests \ {r} : reqs'[s] = reqs[s])

====
